---- MODULE Spec2Model ----
(***************************************************************************)
(* English-to-Hindi media dubbing pipeline (app.py, translate_media.py).   *)
(*                                                                         *)
(* The specifications share the variables below:                           *)
(*   SpecTranslate  the two translate_text functions applied to bounded    *)
(*                  input texts with every outcome of the model calls;     *)
(*   Spec           the three orchestration entry points (upload and       *)
(*                  YouTube paths of app.py, main of translate_media.py)   *)
(*                  run as interleaved jobs over one output directory;     *)
(*   SpecHistory    the History section of app.py on bounded logs;         *)
(*   SpecClassify   the classification by file extension, per entry point; *)
(*   SpecDownload   the file-name fallback after a YouTube download.       *)
(* Text is a sequence of one-character strings.                            *)
(***************************************************************************)
EXTENDS Integers, Sequences, FiniteSets, TLC

VARIABLES
    tr_pc, tr_impl, tr_text, tr_load, tr_oracle, tr_ret,
    pc, entry, base, ext, english_text, hindi_text, tts_success, trace,
    fs, history, io,
    finished_before,
    fn_pc, fn_in, fn_out

tr_vars == <<tr_pc, tr_impl, tr_text, tr_load, tr_oracle, tr_ret>>
job_vars == <<pc, entry, base, ext, english_text, hindi_text, tts_success, trace>>
env_vars == <<fs, history, io, finished_before>>
\* position, input and result of the function a function specification applies
fn_vars == <<fn_pc, fn_in, fn_out>>
vars == <<tr_pc, tr_impl, tr_text, tr_load, tr_oracle, tr_ret,
          pc, entry, base, ext, english_text, hindi_text, tts_success, trace,
          fs, history, io, finished_before, fn_pc, fn_in, fn_out>>

(***************************************************************************)
(* Bounds                                                                  *)
(***************************************************************************)
\* longest enumerated input text of translate_text
MaxLen == 7

\* most model calls translate_text can make on an enumerated text: a unit
\* that reaches the model has at least 3 characters and units are separated
\* by at least one terminator
MaxCalls == (MaxLen + 1) \div 4

(***************************************************************************)
(* Python values                                                           *)
(***************************************************************************)
\* Python's None, kept apart from every text (texts hold single characters)
None == <<"<None>">>

\* truth value of a str-or-None: None and "" are falsy
Truthy(v) == v # None /\ v # <<>>

Min(S) == CHOOSE x \in S : \A y \in S : x <= y
Max(S) == CHOOSE x \in S : \A y \in S : x >= y

\* str.strip(): leading and trailing whitespace removed
strip(s) ==
    LET idx == {i \in 1..Len(s) : s[i] # " "}
    IN  IF idx = {} THEN <<>> ELSE SubSeq(s, Min(idx), Max(idx))

\* the characters of the class [.!?]
Terminators == {".", "!", "?"}

\* re.split(r'[.!?]+', s): the pieces between maximal runs of terminators,
\* an empty piece where the text starts or ends with a run
RECURSIVE re_split(_)
re_split(s) ==
    LET d == {i \in 1..Len(s) : s[i] \in Terminators}
    IN  IF d = {} THEN <<s>>
        ELSE LET i == Min(d)
                 rest == SubSeq(s, i, Len(s))
                 nd == {k \in 1..Len(rest) : rest[k] \notin Terminators}
                 after == IF nd = {} THEN <<>>
                          ELSE SubSeq(rest, Min(nd), Len(rest))
             IN  <<SubSeq(s, 1, i - 1)>> \o re_split(after)

\* ' '.join(parts)
RECURSIVE join(_)
join(parts) ==
    IF parts = <<>> THEN <<>>
    ELSE IF Len(parts) = 1 THEN parts[1]
    ELSE parts[1] \o <<" ">> \o join(Tail(parts))

(***************************************************************************)
(* The external translation model                                          *)
(***************************************************************************)
\* what one tokenizer/generate/decode round can do: raise, decode to the
\* empty string, or decode to a text
ModelOutcomes == {"raise", "empty", "text"}

\* the decoded text of a successful call: the model is external, its output
\* is kept distinct per input so that order and grouping stay visible
Decode(unit, outcome) == IF outcome = "empty" THEN <<>> ELSE <<"hi:">> \o unit

\* shortest unit the loop sends to the model
MinUnitLen == 3

\* [s.strip() for s in sentences if s.strip()]
Sentences(text) ==
    LET pieces == re_split(text)
        kept == SelectSeq(pieces, LAMBDA p : strip(p) # <<>>)
    IN  [i \in 1..Len(kept) |-> strip(kept[i])]

\* the loop with its length test off by one: len(sentence) < 2
LongEnough_off_by_one(sentence) == Len(sentence) >= MinUnitLen - 1

\* the sentences the loop does not skip: not (len(sentence) < 3)
LongEnough(sentence) == Len(sentence) >= MinUnitLen

\* the for loop of translate_text: state is (translated_sentences, calls),
\* the k-th model call takes its outcome from oracle[k]
RECURSIVE translate_loop(_, _, _, _)
translate_loop(sentences, oracle, translated, calls) ==
    IF sentences = <<>> THEN [translated |-> translated, calls |-> calls]
    ELSE LET sentence == Head(sentences)
         IN  IF ~LongEnough(sentence)
             THEN translate_loop(Tail(sentences), oracle, translated, calls)
             ELSE LET k == Len(calls) + 1
                      o == IF k \in DOMAIN oracle THEN oracle[k] ELSE "raise"
                  IN  IF o = "raise"
                      THEN translate_loop(Tail(sentences), oracle, translated,
                                          Append(calls, sentence))
                      ELSE translate_loop(Tail(sentences), oracle,
                                          Append(translated, Decode(sentence, o)),
                                          Append(calls, sentence))

\* translate_text of translate_media.py.  load: whether from_pretrained
\* succeeds; value: the returned str or None; sentences: the list after the
\* filter; calls: the inputs of the model calls made, in order
translate_text(english_text_, load, oracle) ==
    IF ~load THEN [value |-> None, sentences |-> <<>>, calls |-> <<>>]
    ELSE LET text == strip(english_text_)
         IN  IF text = <<>>
             THEN [value |-> None, sentences |-> <<>>, calls |-> <<>>]
             ELSE LET sentences == Sentences(text)
                      r == translate_loop(sentences, oracle, <<>>, <<>>)
                  IN  [value |-> join(r.translated), sentences |-> sentences,
                       calls |-> r.calls]

\* translate_text of app.py: one model call on the whole text
app_translate_text(english_text_, load, oracle) ==
    IF ~load THEN [value |-> None, sentences |-> <<>>, calls |-> <<>>]
    ELSE IF oracle[1] = "raise"
         THEN [value |-> None, sentences |-> <<>>, calls |-> <<english_text_>>]
         ELSE [value |-> Decode(english_text_, oracle[1]), sentences |-> <<>>,
               calls |-> <<english_text_>>]

(***************************************************************************)
(* Transcriber post-processing                                             *)
(***************************************************************************)
\* re.sub(r'\s+', ' ', s): every run of whitespace becomes one space
RECURSIVE collapse_ws(_)
collapse_ws(s) ==
    IF Len(s) < 2 THEN s
    ELSE IF s[1] = " " /\ s[2] = " " THEN collapse_ws(Tail(s))
    ELSE <<s[1]>> \o collapse_ws(Tail(s))

\* s.replace(' ' + c, c): left to right, matches do not overlap
RECURSIVE drop_space_before(_, _)
drop_space_before(s, c) ==
    IF Len(s) < 2 THEN s
    ELSE IF s[1] = " " /\ s[2] = c
         THEN <<c>> \o drop_space_before(SubSeq(s, 3, Len(s)), c)
         ELSE <<s[1]>> \o drop_space_before(Tail(s), c)

\* transcribe_audio of translate_media.py on the engine's raw text, or on
\* an error of the engine (raw = None)
transcribe_audio(raw) ==
    IF raw = None THEN None
    ELSE drop_space_before(drop_space_before(collapse_ws(strip(raw)), "."), ",")

\* transcribe_audio of app.py
app_transcribe_audio(raw) == IF raw = None THEN None ELSE strip(raw)

(***************************************************************************)
(* Stage wrappers around external calls                                    *)
(***************************************************************************)
\* subprocess.run(cmd, check=True): exit status 0, a non-zero exit status
\* (CalledProcessError), or the process cannot be started (OSError, e.g.
\* ffmpeg is not installed)
ProcOutcomes == {"ok", "nonzero", "oserror"}

\* extract_audio_from_video: only CalledProcessError is caught
extract_audio_from_video(o) ==
    IF o = "ok" THEN "ok" ELSE IF o = "nonzero" THEN "fail" ELSE "raise"

\* merge_audio_with_video_simple: only CalledProcessError is caught
merge_audio_with_video_simple(o) ==
    IF o = "ok" THEN "ok" ELSE IF o = "nonzero" THEN "fail" ELSE "raise"

\* gTTS(...).save(...): success or any error
TtsOutcomes == {"ok", "error"}

\* text_to_speech_gtts (both files): every Exception is caught
text_to_speech_gtts(o) == o = "ok"

(***************************************************************************)
(* Jobs, extensions, paths                                                 *)
(***************************************************************************)
\* jobs that may run interleaved over the one output directory
NJobs == 2
Jobs == 1..NJobs

\* base names, in the order runs first use them
BaseOrder == <<"a", "b">>

VideoExts == {".mp4", ".avi", ".mov", ".mkv", ".wmv", ".flv"}
AudioExts == {".mp3", ".wav", ".m4a", ".aac", ".flac"}
YtAudioExts == AudioExts \cup {".webm"}

\* st.file_uploader(type=[...]): the extensions the upload widget accepts
UploadTypes == {".mp3", ".wav", ".mp4", ".avi", ".mov", ".mkv", ".wmv",
                ".flv", ".m4a", ".aac", ".flac"}

\* the extensions enumerated as inputs: a video one, an audio one, webm
\* (audio on the YouTube path only) and one in no list
InputExts == {".mp4", ".mp3", ".webm", ".opus"}

is_video(e) == e \in VideoExts

\* variant: webm counts as audio at every entry point
is_audio_webm_everywhere(en, e) == e \in YtAudioExts
is_audio(en, e) == e \in (IF en = "youtube" THEN YtAudioExts ELSE AudioExts)

IsVideo(j) == is_video(ext[j])
IsAudio(j) == is_audio(entry[j], ext[j])

OutDir == "translated_output"

\* app.py keeps the uploaded or downloaded file in the output directory;
\* main is given a path of the user's
InputPath(j) ==
    IF entry[j] = "main" THEN <<"user", base[j], ext[j]>>
    ELSE <<OutDir, base[j], ext[j]>>

\* the extraction target
TempAudioPath(j) ==
    IF entry[j] = "main" THEN <<OutDir, "", "temp_audio.wav">>
    ELSE <<OutDir, base[j], "_temp_audio.wav">>

OutputAudioPath(j) == <<OutDir, base[j], "_hindi.wav">>
\* variant: the dubbed video is written over the synthesized audio
OutputVideoPath_on_audio_path(j) == <<OutDir, base[j], "_hindi.wav">>
OutputVideoPath(j) == <<OutDir, base[j], "_hindi.mp4">>
HistoryPath == <<OutDir, "history", ".txt">>

AudioToProcess(j) == IF IsVideo(j) THEN TempAudioPath(j) ELSE InputPath(j)

\* the extensions tried, in this order, when the expected file is missing
FallbackExts == <<".webm", ".m4a", ".mp3", ".mp4">>

\* the extension of the path kept after a download: expected is the
\* extension of prepare_filename's answer, on_disk the extensions under
\* which a file of that stem exists
resolve_downloaded(expected, on_disk) ==
    IF expected \in on_disk THEN expected
    ELSE LET found == {i \in DOMAIN FallbackExts : FallbackExts[i] \in on_disk}
         IN  IF found = {} THEN expected ELSE FallbackExts[Min(found)]

\* a file's content: the job and stage that wrote it and, for a dubbed
\* video, the job whose synthesized audio went into it
File(j, stage, src) == [job |-> j, stage |-> stage, src |-> src]
Absent == File(0, "absent", 0)
External == File(0, "external", 0)

\* fs maps the files that exist in the output directory to their content
NoFiles == [p \in {} |-> Absent]

\* os.path.exists; a path outside the output directory is the user's file
Exists(p) == p[1] # OutDir \/ p \in DOMAIN fs

\* what is at a path
Content(p) ==
    IF p \in DOMAIN fs THEN fs[p] ELSE IF p[1] = OutDir THEN Absent ELSE External

IoOp(stage, op, p) == [stage |-> stage, op |-> op, path |-> p, found |-> Content(p)]

\* variant: a write leaves a file that is already there as it is
FsStep_no_overwrite(j, stage, reads, writes, removes, content) ==
    /\ fs' = [p \in (DOMAIN fs \cup (writes \ {HistoryPath})) \ removes |->
                IF p \in DOMAIN fs THEN fs[p] ELSE content]
    /\ io' = [io EXCEPT ![j] = @ \cup {IoOp(stage, "read", p) : p \in reads}
                                  \cup {IoOp(stage, "write", p) : p \in writes}
                                  \cup {IoOp(stage, "remove", p) : p \in removes}]

\* one file-system operation of job j in a stage: fs afterwards, and in
\* io[j] each path the job read, wrote or removed with what it found there
FsStep(j, stage, reads, writes, removes, content) ==
    /\ fs' = [p \in (DOMAIN fs \cup (writes \ {HistoryPath})) \ removes |->
                IF p \in writes THEN content ELSE fs[p]]
    /\ io' = [io EXCEPT ![j] = @ \cup {IoOp(stage, "read", p) : p \in reads}
                                  \cup {IoOp(stage, "write", p) : p \in writes}
                                  \cup {IoOp(stage, "remove", p) : p \in removes}]

Invoked(j, stage, result) ==
    trace' = [trace EXCEPT ![j] = Append(@, [stage |-> stage, result |-> result])]

(***************************************************************************)
(* translate_text as a function: SpecTranslate                             *)
(***************************************************************************)
Alphabet == {"a", " ", "."}

\* every text over the alphabet up to the bound
Texts == UNION {[1..k -> Alphabet] : k \in 0..MaxLen}

HelloWorldHi ==
    <<"H", "e", "l", "l", "o", " ", "w", "o", "r", "l", "d", ".", " ",
      "H", "i", "!">>

\* texts with the other terminators and with runs of them
SampleTexts ==
    {HelloWorldHi,
     <<"a", "b", "c", "!", "?", " ", "d", "e", "f", "?">>,
     <<"?", "a", "b", "!", "a", "b", "c", ".", ".", ".">>}

TrInputs == Texts \cup SampleTexts

Oracles == [1..MaxCalls -> ModelOutcomes]

NoReturn == [value |-> None, sentences |-> <<>>, calls |-> <<>>]

\* no function of the function specifications is being applied
NoFunction ==
    /\ fn_pc = "off"
    /\ fn_in = <<>>
    /\ fn_out = <<>>

\* translate_text is not being applied
NoTranslateCall ==
    /\ tr_pc = "off"
    /\ tr_impl = "none"
    /\ tr_text = <<>>
    /\ tr_load = TRUE
    /\ tr_oracle = [k \in 1..MaxCalls |-> "text"]
    /\ tr_ret = NoReturn

\* no run has started
NoRuns ==
    /\ pc = [j \in Jobs |-> "idle"]
    /\ entry = [j \in Jobs |-> "none"]
    /\ base = [j \in Jobs |-> ""]
    /\ ext = [j \in Jobs |-> ""]
    /\ english_text = [j \in Jobs |-> None]
    /\ hindi_text = [j \in Jobs |-> None]
    /\ tts_success = [j \in Jobs |-> FALSE]
    /\ trace = [j \in Jobs |-> <<>>]
    /\ fs = NoFiles
    /\ io = [j \in Jobs |-> {}]
    /\ finished_before = [j \in Jobs |-> {}]

IdleJobs ==
    /\ NoRuns
    /\ history = <<>>

InitTranslate ==
    /\ tr_pc = "ready"
    /\ tr_impl \in {"translate_media", "app"}
    /\ tr_text \in TrInputs
    /\ tr_load = TRUE
    /\ tr_oracle = [k \in 1..MaxCalls |-> "text"]
    /\ tr_ret = NoReturn
    /\ IdleJobs
    /\ NoFunction

\* translate_media.translate_text(tr_text)
CallTranslateMedia ==
    /\ tr_pc = "ready"
    /\ tr_impl = "translate_media"
    /\ \E load \in BOOLEAN, oracle \in Oracles :
        /\ tr_load' = load
        /\ tr_oracle' = oracle
        /\ tr_ret' = translate_text(tr_text, load, oracle)
    /\ tr_pc' = "returned"
    /\ UNCHANGED <<tr_impl, tr_text, job_vars, env_vars, fn_vars>>

\* app.translate_text(tr_text)
CallTranslateApp ==
    /\ tr_pc = "ready"
    /\ tr_impl = "app"
    /\ \E load \in BOOLEAN, oracle \in Oracles :
        /\ tr_load' = load
        /\ tr_oracle' = oracle
        /\ tr_ret' = app_translate_text(tr_text, load, oracle)
    /\ tr_pc' = "returned"
    /\ UNCHANGED <<tr_impl, tr_text, job_vars, env_vars, fn_vars>>

NextTranslate == CallTranslateMedia \/ CallTranslateApp

SpecTranslate == InitTranslate /\ [][NextTranslate]_vars

(***************************************************************************)
(* The orchestration entry points: Spec                                    *)
(***************************************************************************)
\* raw texts the speech engine returns in the enumerated runs
RawTranscripts ==
    {<<>>,
     <<" ", "a", "b", ".">>,
     <<"a", "a", "a", " ", ".", " ", " ", "a", " ", "a", "!">>}

\* a text of whitespace only (the empty text included)
Blank(v) == v # None /\ strip(v) = <<>>

\* variant: extraction is attempted on every input
FirstStage_always_extract(e) == "extract"

\* the first stage of process_file / main for a classified input
FirstStage(e) == IF is_video(e) THEN "extract" ELSE "transcribe"

\* where a run has ended
Terminal == {"done", "crashed", "unsupported", "notfound"}

\* a run starts: the runs that ended before it are noted
Started(j) ==
    finished_before' = [finished_before EXCEPT ![j] = {k \in Jobs : pc[k] \in Terminal}]

\* jobs are numbered in the order they start
MayStart(j) == pc[j] = "idle" /\ \A k \in Jobs : k < j => pc[k] # "idle"

\* base names are interchangeable: a run uses a name already in use or the
\* next unused one
UsedBases == {base[j] : j \in {k \in Jobs : pc[k] # "idle"}}
NewBases ==
    LET unused == {i \in DOMAIN BaseOrder : BaseOrder[i] \notin UsedBases}
    IN  IF unused = {} THEN {} ELSE {BaseOrder[Min(unused)]}
BaseChoices == UsedBases \cup NewBases

Init ==
    /\ tr_pc = "off"
    /\ tr_impl = "none"
    /\ tr_text = <<>>
    /\ tr_load = TRUE
    /\ tr_oracle = [k \in 1..MaxCalls |-> "text"]
    /\ tr_ret = NoReturn
    /\ IdleJobs
    /\ NoFunction

\* app.py, upload section: the buffer is written under the output
\* directory, the input is classified and process_file runs on it
Upload(j) ==
    /\ MayStart(j)
    /\ \E b \in BaseChoices, e \in InputExts \cap UploadTypes :
        /\ entry' = [entry EXCEPT ![j] = "upload"]
        /\ base' = [base EXCEPT ![j] = b]
        /\ ext' = [ext EXCEPT ![j] = e]
        /\ FsStep(j, "Acquire", {}, {<<OutDir, b, e>>}, {}, File(j, "Acquire", 0))
        /\ pc' = [pc EXCEPT ![j] = FirstStage(e)]
    /\ Started(j)
    /\ UNCHANGED <<tr_vars, fn_vars, english_text, hindi_text, tts_success, trace, history>>

\* app.py, "Download from YouTube": yt-dlp writes the file, under the
\* extension of the expected name or under another one, and the path
\* resolved from the expected name is kept in the session state
YouTubeDownload(j) ==
    /\ MayStart(j)
    /\ \E b \in BaseChoices, expected \in InputExts, landed \in InputExts :
        /\ entry' = [entry EXCEPT ![j] = "youtube"]
        /\ base' = [base EXCEPT ![j] = b]
        /\ FsStep(j, "Acquire", {}, {<<OutDir, b, landed>>}, {}, File(j, "Acquire", 0))
        /\ ext' = [ext EXCEPT ![j] =
                     resolve_downloaded(expected,
                                        {x \in InputExts : <<OutDir, b, x>> \in DOMAIN fs'})]
    /\ pc' = [pc EXCEPT ![j] = "downloaded"]
    /\ Started(j)
    /\ UNCHANGED <<tr_vars, fn_vars, english_text, hindi_text, tts_success, trace, history>>

\* app.py, "Translate! (YouTube)": classification and the inner process_file
YouTubeTranslate(j) ==
    /\ pc[j] = "downloaded"
    /\ pc' = [pc EXCEPT ![j] = FirstStage(ext[j])]
    /\ UNCHANGED <<tr_vars, fn_vars, entry, base, ext, english_text, hindi_text,
                   tts_success, trace, env_vars>>

\* translate_media.main up to the first stage
MainStart(j) ==
    /\ MayStart(j)
    /\ \E b \in BaseChoices, e \in InputExts, exists \in BOOLEAN :
        /\ entry' = [entry EXCEPT ![j] = "main"]
        /\ base' = [base EXCEPT ![j] = b]
        /\ ext' = [ext EXCEPT ![j] = e]
        /\ pc' = [pc EXCEPT ![j] =
                    IF ~exists THEN "notfound"
                    ELSE IF ~(is_video(e) \/ is_audio("main", e)) THEN "unsupported"
                    ELSE FirstStage(e)]
    /\ Started(j)
    /\ UNCHANGED <<tr_vars, fn_vars, english_text, hindi_text, tts_success, trace,
                   fs, history, io>>

\* Step 1: extract_audio_from_video(input_path, temp_audio_path); app.py
\* drops the returned value
ExtractAudio(j) ==
    /\ pc[j] = "extract"
    /\ \E o \in ProcOutcomes :
        /\ o = "ok" => Exists(InputPath(j))
        /\ LET r == extract_audio_from_video(o)
           IN  /\ Invoked(j, "ExtractAudio", r)
               /\ FsStep(j, "ExtractAudio", {InputPath(j)},
                         IF o = "ok" THEN {TempAudioPath(j)} ELSE {}, {},
                         File(j, "ExtractAudio", 0))
               /\ pc' = [pc EXCEPT ![j] =
                           IF r = "raise" THEN "crashed"
                           ELSE IF entry[j] = "main" /\ r = "fail" THEN "done"
                           ELSE "transcribe"]
    /\ UNCHANGED <<tr_vars, fn_vars, finished_before, entry, base, ext, english_text, hindi_text,
                   tts_success, history>>

\* Step 2: transcribe_audio(audio_to_process); the engine fails on a file
\* that does not exist
Transcribe(j) ==
    /\ pc[j] = "transcribe"
    /\ \E raw \in RawTranscripts \cup {None} :
        /\ ~Exists(AudioToProcess(j)) => raw = None
        /\ LET text == IF entry[j] = "main" THEN transcribe_audio(raw)
                       ELSE app_transcribe_audio(raw)
           IN  /\ english_text' = [english_text EXCEPT ![j] = text]
               /\ Invoked(j, "Transcribe", IF Truthy(text) THEN "ok" ELSE "fail")
               /\ pc' = [pc EXCEPT ![j] =
                           IF entry[j] = "main" /\ ~Truthy(text) THEN "done"
                           ELSE "translate"]
    /\ FsStep(j, "Transcribe", {AudioToProcess(j)}, {}, {}, Absent)
    /\ UNCHANGED <<tr_vars, fn_vars, finished_before, entry, base, ext, hindi_text, tts_success, history>>

\* Step 3: main calls translate_text and returns on a falsy result; app.py
\* calls its own translate_text only on a truthy transcription
Translate(j) ==
    /\ pc[j] = "translate"
    /\ IF entry[j] # "main" /\ ~Truthy(english_text[j])
       THEN /\ hindi_text' = [hindi_text EXCEPT ![j] = None]
            /\ pc' = [pc EXCEPT ![j] = "synthesize"]
            /\ UNCHANGED trace
       ELSE \E load \in BOOLEAN, oracle \in Oracles :
            LET r == IF entry[j] = "main"
                     THEN translate_text(english_text[j], load, oracle)
                     ELSE app_translate_text(english_text[j], load, oracle)
            IN  /\ hindi_text' = [hindi_text EXCEPT ![j] = r.value]
                /\ Invoked(j, "Translate",
                           IF r.value = None \/ Blank(r.value) THEN "fail" ELSE "ok")
                /\ pc' = [pc EXCEPT ![j] =
                            IF entry[j] = "main" /\ ~Truthy(r.value) THEN "done"
                            ELSE "synthesize"]
    /\ UNCHANGED <<tr_vars, fn_vars, entry, base, ext, english_text, tts_success, env_vars>>

\* Step 4: text_to_speech_gtts(hindi_text, output_audio_path); app.py calls
\* it only on a truthy translation.  The service has nothing to speak in a
\* blank text
Synthesize(j) ==
    /\ pc[j] = "synthesize"
    /\ IF entry[j] # "main" /\ ~Truthy(hindi_text[j])
       THEN /\ tts_success' = [tts_success EXCEPT ![j] = FALSE]
            /\ pc' = [pc EXCEPT ![j] = IF IsVideo(j) THEN "remux" ELSE "history"]
            /\ UNCHANGED <<trace, fs, io>>
       ELSE \E o \in TtsOutcomes :
            /\ Blank(hindi_text[j]) => o = "error"
            /\ LET r == text_to_speech_gtts(o)
               IN  /\ tts_success' = [tts_success EXCEPT ![j] = r]
                   /\ Invoked(j, "Synthesize", IF r THEN "ok" ELSE "fail")
                   /\ FsStep(j, "Synthesize", {},
                             IF r THEN {OutputAudioPath(j)} ELSE {}, {},
                             File(j, "Synthesize", 0))
                   /\ pc' = [pc EXCEPT ![j] =
                               IF entry[j] = "main"
                               THEN (IF ~r THEN "done"
                                     ELSE IF IsVideo(j) THEN "remux" ELSE "cleanup")
                               ELSE (IF IsVideo(j) THEN "remux" ELSE "history")]
    /\ UNCHANGED <<tr_vars, fn_vars, finished_before, entry, base, ext, english_text, hindi_text, history>>

\* Step 5: merge_audio_with_video_simple(input_path, output_audio_path,
\* output_video_path); ffmpeg exits non-zero when an input is missing
Remux(j) ==
    /\ pc[j] = "remux"
    /\ \E o \in ProcOutcomes :
        /\ o = "ok" => Exists(InputPath(j)) /\ Exists(OutputAudioPath(j))
        /\ LET r == merge_audio_with_video_simple(o)
           IN  /\ Invoked(j, "Remux", r)
               /\ FsStep(j, "Remux", {InputPath(j), OutputAudioPath(j)},
                         IF o = "ok" THEN {OutputVideoPath(j)} ELSE {}, {},
                         File(j, "Remux", Content(OutputAudioPath(j)).job))
               /\ pc' = [pc EXCEPT ![j] =
                           IF r = "raise" THEN "crashed"
                           ELSE IF entry[j] # "main" THEN "history"
                           ELSE IF r = "fail" THEN "done" ELSE "cleanup"]
    /\ UNCHANGED <<tr_vars, fn_vars, finished_before, entry, base, ext, english_text, hindi_text,
                   tts_success, history>>

\* main: if is_video and os.path.exists(temp_audio_path): os.remove(...)
Cleanup(j) ==
    /\ pc[j] = "cleanup"
    /\ FsStep(j, "Cleanup", {},  {},
              IF IsVideo(j) /\ Exists(TempAudioPath(j)) THEN {TempAudioPath(j)}
              ELSE {}, Absent)
    /\ pc' = [pc EXCEPT ![j] = "done"]
    /\ UNCHANGED <<tr_vars, fn_vars, finished_before, entry, base, ext, english_text, hindi_text,
                   tts_success, trace, history>>

\* process_file: one line appended to history.txt
RecordHistory(j) ==
    /\ pc[j] = "history"
    /\ history' = Append(history,
                         [label |-> IF entry[j] = "upload" THEN "Upload" ELSE "YouTube",
                          base |-> base[j], job |-> j])
    /\ Invoked(j, "RecordHistory", "ok")
    /\ FsStep(j, "RecordHistory", {}, {HistoryPath}, {}, Absent)
    /\ pc' = [pc EXCEPT ![j] = "done"]
    /\ UNCHANGED <<tr_vars, fn_vars, finished_before, entry, base, ext, english_text, hindi_text, tts_success>>

Next ==
    \E j \in Jobs :
        \/ Upload(j)
        \/ YouTubeDownload(j)
        \/ YouTubeTranslate(j)
        \/ MainStart(j)
        \/ ExtractAudio(j)
        \/ Transcribe(j)
        \/ Translate(j)
        \/ Synthesize(j)
        \/ Remux(j)
        \/ Cleanup(j)
        \/ RecordHistory(j)

Spec == Init /\ [][Next]_vars

(***************************************************************************)
(* The History section: SpecHistory                                        *)
(***************************************************************************)
MaxHistory == 12
HistoryLimit == 10

\* the lines process_file can have appended: a source label and a base name
HistoryLines ==
    {[label |-> l, base |-> "a", job |-> 0] : l \in {"Upload", "YouTube"}}

\* history files of up to MaxHistory lines
HistoryFiles == UNION {[1..n -> HistoryLines] : n \in 0..MaxHistory}

\* s[-k:]
last(s, k) == SubSeq(s, Max({1, Len(s) - k + 1}), Len(s))

\* variant: the slice is shown in file order
reversed_in_file_order(s) == s

\* s[::-1]
reversed(s) == [i \in 1..Len(s) |-> s[Len(s) + 1 - i]]

\* the records st.write shows, top to bottom; line.strip() drops the line
\* terminator, which the records here do not carry
history_read_back(lines) == reversed(last(lines, HistoryLimit))

InitHistory ==
    /\ NoTranslateCall
    /\ NoRuns
    /\ history \in HistoryFiles
    /\ fn_pc = "ready"
    /\ fn_in = history
    /\ fn_out = <<>>

\* the History section of a script run
ShowHistory ==
    /\ fn_pc = "ready"
    /\ fn_out' = history_read_back(history)
    /\ fn_pc' = "shown"
    /\ UNCHANGED <<tr_vars, job_vars, env_vars, fn_in>>

NextHistory == ShowHistory

SpecHistory == InitHistory /\ [][NextHistory]_vars

(***************************************************************************)
(* Classification of a file name: SpecClassify                             *)
(***************************************************************************)
UpperCase ==
    <<"A", "B", "C", "D", "E", "F", "G", "H", "I", "J", "K", "L", "M",
      "N", "O", "P", "Q", "R", "S", "T", "U", "V", "W", "X", "Y", "Z">>
LowerCase ==
    <<"a", "b", "c", "d", "e", "f", "g", "h", "i", "j", "k", "l", "m",
      "n", "o", "p", "q", "r", "s", "t", "u", "v", "w", "x", "y", "z">>

lower_char(c) ==
    IF \E i \in DOMAIN UpperCase : UpperCase[i] = c
    THEN LowerCase[CHOOSE i \in DOMAIN UpperCase : UpperCase[i] = c]
    ELSE c
upper_char(c) ==
    IF \E i \in DOMAIN LowerCase : LowerCase[i] = c
    THEN UpperCase[CHOOSE i \in DOMAIN LowerCase : LowerCase[i] = c]
    ELSE c

\* str.lower()
lower(s) == [i \in DOMAIN s |-> lower_char(s[i])]

\* os.path.splitext on a name without directory: the extension starts at
\* the last dot unless only dots precede it
splitext(name) ==
    LET dots == {i \in DOMAIN name : name[i] = "."}
    IN  IF dots = {} THEN <<name, <<>>>>
        ELSE LET d == Max(dots)
             IN  IF \E i \in 1..(d - 1) : name[i] # "."
                 THEN <<SubSeq(name, 1, d - 1), SubSeq(name, d, Len(name))>>
                 ELSE <<name, <<>>>>

\* the characters of a text as one string
RECURSIVE Str(_)
Str(s) == IF s = <<>> THEN "" ELSE s[1] \o Str(Tail(s))

\* file_ext, is_video and is_audio of an entry point for a file name; the
\* upload widget hands over only names of its accepted types
classify(en, name) ==
    LET file_ext == Str(lower(splitext(name)[2]))
        accepted == en = "upload" => file_ext \in UploadTypes
    IN  [is_video |-> accepted /\ is_video(file_ext),
         is_audio |-> accepted /\ is_audio(en, file_ext)]

\* extensions of the enumerated names, lower-cased and without the dot: the
\* listed ones, webm, two in no list and none
NameExts ==
    {<<"m", "p", "4">>, <<"a", "v", "i">>, <<"m", "o", "v">>, <<"m", "k", "v">>,
     <<"w", "m", "v">>, <<"f", "l", "v">>, <<"m", "p", "3">>, <<"w", "a", "v">>,
     <<"m", "4", "a">>, <<"a", "a", "c">>, <<"f", "l", "a", "c">>,
     <<"w", "e", "b", "m">>, <<"o", "p", "u", "s">>, <<"t", "x", "t">>, <<>>}

NameStems == {<<"a">>, <<"a", ".", "m", "p", "4">>}

\* every way of writing an extension in upper and lower case
CaseVariants(x) ==
    {[i \in DOMAIN x |-> IF i \in U THEN upper_char(x[i]) ELSE x[i]] :
        U \in SUBSET DOMAIN x}

\* the enumerated names, each with the lower-cased extension it was built
\* from
ClassifyInputs ==
    {[entry |-> en,
      name |-> IF nx[1] = <<>> THEN <<"a">> ELSE nx[2] \o <<".">> \o nx[3],
      ext |-> IF nx[1] = <<>> THEN "" ELSE "." \o Str(nx[1])] :
        en \in {"upload", "youtube", "main"},
        nx \in UNION {{<<x, st, v>> : st \in NameStems, v \in CaseVariants(x)} :
                       x \in NameExts}}

InitClassify ==
    /\ NoTranslateCall
    /\ IdleJobs
    /\ fn_pc = "ready"
    /\ fn_in \in ClassifyInputs
    /\ fn_out = <<>>

\* the classification lines of the entry point fn_in.entry
Classify ==
    /\ fn_pc = "ready"
    /\ fn_out' = classify(fn_in.entry, fn_in.name)
    /\ fn_pc' = "classified"
    /\ UNCHANGED <<tr_vars, job_vars, env_vars, fn_in>>

NextClassify == Classify

SpecClassify == InitClassify /\ [][NextClassify]_vars

(***************************************************************************)
(* The path kept after a download: SpecDownload                            *)
(***************************************************************************)
\* extensions of the enumerated downloads: the four fallbacks and two others
DownloadExts == {".webm", ".m4a", ".mp3", ".mp4", ".opus", ".mkv"}

\* the expected extension and the extensions on disk after a download that
\* wrote a file
DownloadInputs ==
    {[expected |-> e, on_disk |-> D] :
        e \in DownloadExts, D \in (SUBSET DownloadExts) \ {{}}}

InitDownload ==
    /\ NoTranslateCall
    /\ IdleJobs
    /\ fn_pc = "ready"
    /\ fn_in \in DownloadInputs
    /\ fn_out = <<>>

\* app.py: downloaded_file after the fallback loop, as stored in the
\* session state
StoreDownloaded ==
    /\ fn_pc = "ready"
    /\ fn_out' = resolve_downloaded(fn_in.expected, fn_in.on_disk)
    /\ fn_pc' = "stored"
    /\ UNCHANGED <<tr_vars, job_vars, env_vars, fn_in>>

NextDownload == StoreDownloaded

SpecDownload == InitDownload /\ [][NextDownload]_vars

(***************************************************************************)
(* Claims                                                                  *)
(***************************************************************************)
Stages(j) == {trace[j][i].stage : i \in DOMAIN trace[j]}
HistoryOf(j) == {i \in DOMAIN history : history[i].job = j}
Classified(j) == pc[j] \notin {"idle", "notfound"}

\* C1: once ExtractAudio, Transcribe, Translate or Synthesize has failed in
\* a run, no later transformation stage is invoked in that run; Remux is
\* invoked only after a Synthesize that succeeded.
C1_ShortCircuit ==
    \A j \in Jobs :
        /\ \A i, k \in DOMAIN trace[j] :
            (/\ i < k
             /\ trace[j][i].stage \in {"ExtractAudio", "Transcribe", "Translate",
                                       "Synthesize"}
             /\ trace[j][i].result # "ok")
            => trace[j][k].stage \notin {"Transcribe", "Translate", "Synthesize",
                                         "Remux"}
        /\ \A k \in DOMAIN trace[j] :
            trace[j][k].stage = "Remux"
            => \E i \in 1..(k - 1) :
                trace[j][i] = [stage |-> "Synthesize", result |-> "ok"]

\* C2: a run whose input was classified as audio or video has appended
\* exactly one history record by the time it has run to its end, whichever
\* stage failed.
C2_OneHistoryRecord ==
    \A j \in Jobs :
        (pc[j] = "done" /\ (IsVideo(j) \/ IsAudio(j)))
        => Cardinality(HistoryOf(j)) = 1

\* C3: a run whose input extension is in neither allow-list executes no
\* stage, writes no artifact after acquiring the input and appends no
\* history record.
C3_UnsupportedAborts ==
    \A j \in Jobs :
        (Classified(j) /\ ~IsVideo(j) /\ ~IsAudio(j))
        => /\ trace[j] = <<>>
           /\ HistoryOf(j) = {}
           /\ {op \in io[j] : op.op = "write" /\ op.stage # "Acquire"} = {}

\* C4: no stage wrapper raises, whatever the external call does, and no
\* run ends crashed.
C4_NoExceptionCrossesStage ==
    \A j \in Jobs :
        /\ pc[j] # "crashed"
        /\ \A i \in DOMAIN trace[j] : trace[j][i].result # "raise"

\* the units the claim lets through: split of the trimmed text, trimmed,
\* non-empty, of length at least 3
C5_Units(text) == SelectSeq(Sentences(strip(text)), LAMBDA u : Len(u) >= 3)

\* the join the claim states, the k-th unit's call taking outcome oracle[k]
C5_Join(text, oracle) ==
    LET u == C5_Units(text)
        idx == SelectSeq([k \in 1..Len(u) |-> k],
                         LAMBDA k : k \in DOMAIN oracle /\ oracle[k] # "raise")
    IN  join([i \in 1..Len(idx) |-> Decode(u[idx[i]], oracle[idx[i]])])

\* C5: on a non-blank text translate_text returns the single-space join, in
\* order, of the translations of the units of length at least 3 whose own
\* model call succeeded.
C5_JoinOfTranslatedUnits ==
    (tr_pc = "returned" /\ tr_load /\ ~Blank(tr_text))
    => tr_ret.value = C5_Join(tr_text, tr_oracle)

HelloWorld == SubSeq(HelloWorldHi, 1, 11)
Hi == SubSeq(HelloWorldHi, 14, 15)

C6_Case ==
    /\ tr_pc = "returned"
    /\ tr_impl = "translate_media"
    /\ tr_text = HelloWorldHi
    /\ tr_load

\* C6 as stated: translate_text("Hello world. Hi!") makes one model call for
\* each of the two units and returns the two translations joined by a space.
C6_TwoUnitsTranslated ==
    C6_Case
    => /\ tr_ret.sentences = <<HelloWorld, Hi>>
       /\ tr_ret.calls = <<HelloWorld, Hi>>
       /\ (tr_oracle[1] = "text" /\ tr_oracle[2] = "text")
          => tr_ret.value = Decode(HelloWorld, "text") \o <<" ">> \o Decode(Hi, "text")

\* C6 (amended): translate_text("Hello world. Hi!") splits the text into the
\* two units "Hello world" and "Hi", skips "Hi" (2 characters, under the
\* minimum of 3), makes exactly one model call, on "Hello world", and
\* returns that call's translation alone (the empty text if the call fails).
C6_HelloWorldHi ==
    C6_Case
    => /\ tr_ret.sentences = <<HelloWorld, Hi>>
       /\ tr_ret.calls = <<HelloWorld>>
       /\ tr_ret.value = IF tr_oracle[1] = "raise" THEN <<>>
                         ELSE Decode(HelloWorld, tr_oracle[1])

C6_Witness == C6_Case /\ tr_oracle[1] = "text" /\ tr_ret.value = <<"hi:">> \o HelloWorld

\* C7: when the Translator's result is None, empty or whitespace-only,
\* Synthesize is not invoked in that run.
C7_BlankNeverSynthesized ==
    \A j \in Jobs :
        (hindi_text[j] = None \/ Blank(hindi_text[j])) => "Synthesize" \notin Stages(j)

\* C8: on an empty or whitespace-only text translate_text returns failure
\* and makes no model call.
C8_BlankInputNoModelCall ==
    (tr_pc = "returned" /\ Blank(tr_text))
    => tr_ret.value = None /\ tr_ret.calls = <<>>

\* C9: of two video jobs with different base names, neither reads,
\* overwrites or deletes the extraction target the other wrote.
C9_ExclusiveExtractionTarget ==
    \A j, k \in Jobs :
        (j # k /\ IsVideo(j) /\ IsVideo(k) /\ base[j] # base[k])
        => \A op \in io[j] : op.found # File(k, "ExtractAudio", 0)

\* C10: ExtractAudio writes only <output_dir>/<base>_temp_audio.wav,
\* Synthesize only <output_dir>/<base>_hindi.wav, Remux only
\* <output_dir>/<base>_hindi.mp4, and the other stages write nothing.
C10_PathsFromBaseName ==
    \A j \in Jobs : \A op \in io[j] :
        (op.op # "read" /\ op.stage \notin {"Acquire", "RecordHistory", "Cleanup"})
        => \/ op.stage = "ExtractAudio"
              /\ op.path = <<"translated_output", base[j], "_temp_audio.wav">>
           \/ op.stage = "Synthesize"
              /\ op.path = <<"translated_output", base[j], "_hindi.wav">>
           \/ op.stage = "Remux"
              /\ op.path = <<"translated_output", base[j], "_hindi.mp4">>

\* C11: once a run on a video input has ended, with success or at a failed
\* stage, the extracted-audio file that run wrote is no longer there.
C11_NoExtractedAudioLeft ==
    \A j \in Jobs :
        (IsVideo(j) /\ pc[j] \in {"done", "crashed"})
        => Content(TempAudioPath(j)) # File(j, "ExtractAudio", 0)

StageOrder ==
    <<"ExtractAudio", "Transcribe", "Translate", "Synthesize", "Remux",
      "RecordHistory">>
StageRank(s) == CHOOSE i \in DOMAIN StageOrder : StageOrder[i] = s

\* C12: the stages a run invokes occur in the order ExtractAudio,
\* Transcribe, Translate, Synthesize, Remux, RecordHistory, each at most
\* once, and ExtractAudio and Remux only on a video input.
C12_StagesInOrder ==
    \A j \in Jobs :
        /\ \A i, k \in DOMAIN trace[j] :
            i < k => StageRank(trace[j][i].stage) < StageRank(trace[j][k].stage)
        /\ Stages(j) \subseteq {StageOrder[i] : i \in DOMAIN StageOrder}
        /\ (Stages(j) \cap {"ExtractAudio", "Remux"} # {}) => IsVideo(j)

\* a run on a video and a run on an audio input each went through all of
\* their stages
C12_Witness ==
    /\ \E j \in Jobs : pc[j] = "done" /\ Len(trace[j]) = 6
    /\ \E j \in Jobs : pc[j] = "done" /\ Len(trace[j]) = 4 /\ IsAudio(j)
                       /\ trace[j][4].stage = "RecordHistory"

\* the run ended and every stage it invoked succeeded
AllSucceeded(j) ==
    /\ pc[j] = "done"
    /\ trace[j] # <<>>
    /\ \A i \in DOMAIN trace[j] : trace[j][i].result = "ok"

\* the paths a run wrote, other than its input copy, the extracted audio
\* and the history file
FinalWrites(j) ==
    {op.path : op \in {o \in io[j] : /\ o.op = "write"
                                     /\ o.stage \notin {"Acquire", "ExtractAudio",
                                                         "RecordHistory"}}}

\* C13: a run in which every stage succeeded wrote exactly <base>_hindi.wav
\* on an audio input, without invoking Remux, and exactly <base>_hindi.wav
\* and <base>_hindi.mp4 on a video input.
C13_FinalArtifacts ==
    \A j \in Jobs :
        (AllSucceeded(j) /\ (IsVideo(j) \/ IsAudio(j)))
        => IF IsVideo(j)
           THEN FinalWrites(j) = {<<"translated_output", base[j], "_hindi.wav">>,
                                  <<"translated_output", base[j], "_hindi.mp4">>}
           ELSE /\ FinalWrites(j) = {<<"translated_output", base[j], "_hindi.wav">>}
                /\ "Remux" \notin Stages(j)

C13_Witness ==
    /\ \E j \in Jobs : AllSucceeded(j) /\ IsVideo(j) /\ "Remux" \in Stages(j)
    /\ \E j \in Jobs : AllSucceeded(j) /\ IsAudio(j) /\ ~IsVideo(j)

\* run j ended before run k started, on the same base name, and no other
\* run used that name
OneAfterTheOther(j, k) ==
    /\ j # k
    /\ j \in finished_before[k]
    /\ base[j] = base[k]
    /\ \A m \in Jobs \ {j, k} : pc[m] = "idle" \/ base[m] # base[k]

\* C15: when two runs on the same base name are made one after the other,
\* a stage of the second that writes over a file of the first succeeds, and
\* after both succeeded each output path holds what the second run wrote.
C15_SecondRunOverwrites ==
    \A j, k \in Jobs :
        OneAfterTheOther(j, k)
        => /\ \A op \in io[k] : \A i \in DOMAIN trace[k] :
                (op.op = "write" /\ op.found.job = j /\ trace[k][i].stage = op.stage)
                => trace[k][i].result = "ok"
           /\ (AllSucceeded(j) /\ AllSucceeded(k))
              => /\ Content(OutputAudioPath(k)) = File(k, "Synthesize", 0)
                 /\ IsVideo(k) => Content(OutputVideoPath(k)) = File(k, "Remux", k)

C15_Witness ==
    \E j, k \in Jobs :
        /\ OneAfterTheOther(j, k)
        /\ AllSucceeded(j) /\ AllSucceeded(k)
        /\ IsVideo(j) /\ IsVideo(k)
        /\ \E op \in io[k] : op.op = "write" /\ op.found = File(j, "Remux", j)
        /\ Content(OutputVideoPath(k)) = File(k, "Remux", k)

\* C17: the audio file Remux reads at the output audio path is the one
\* Synthesize wrote in the same run.
C17_RemuxReadsOwnSynthesis ==
    \A j \in Jobs : \A op \in io[j] :
        (op.stage = "Remux" /\ op.op = "read" /\ op.path = OutputAudioPath(j))
        => op.found = File(j, "Synthesize", 0)

\* C14: the history read-back shows exactly min(n, 10) records of a history
\* file of n lines, its last min(n, 10) lines with the most recent first,
\* and leaves the file as it was.
C14_LastTenNewestFirst ==
    fn_pc = "shown"
    => LET n == Len(fn_in)
           m == IF n < 10 THEN n ELSE 10
       IN  /\ Len(fn_out) = m
           /\ \A i \in 1..m : fn_out[i] = fn_in[n + 1 - i]
           /\ history = fn_in

\* a file of more than ten lines whose first and last shown lines differ
C14_Witness ==
    /\ fn_pc = "shown"
    /\ Len(fn_in) > 10
    /\ Len(fn_out) = 10
    /\ fn_out[1] # fn_out[10]
    /\ fn_in[1] # fn_in[Len(fn_in) - 9]

\* C16: the kind of an input is decided by its lower-cased extension alone:
\* video iff it is one of mp4, avi, mov, mkv, wmv, flv; audio iff it is one
\* of mp3, wav, m4a, aac, flac, or webm on the YouTube path; never both; a
\* webm input is neither on the upload path and in main.
C16_KindByExtension ==
    fn_pc = "classified"
    => /\ fn_out.is_video
          <=> fn_in.ext \in {".mp4", ".avi", ".mov", ".mkv", ".wmv", ".flv"}
       /\ fn_out.is_audio
          <=> \/ fn_in.ext \in {".mp3", ".wav", ".m4a", ".aac", ".flac"}
              \/ fn_in.ext = ".webm" /\ fn_in.entry = "youtube"
       /\ ~(fn_out.is_video /\ fn_out.is_audio)
       /\ (fn_in.ext = ".webm" /\ fn_in.entry \in {"upload", "main"})
          => ~fn_out.is_video /\ ~fn_out.is_audio

\* a name in mixed case with two dots, downloaded from YouTube, is audio
C16_Witness ==
    /\ fn_pc = "classified"
    /\ fn_in.entry = "youtube"
    /\ fn_in.name = <<"a", ".", "m", "p", "4", ".", "W", "e", "B", "m">>
    /\ fn_out.is_audio

\* C18: after a download the expected file name is kept when it exists;
\* when it is absent the first of <stem>.webm, .m4a, .mp3, .mp4 that exists
\* is kept; so the path kept always names a file that exists.
C18_StoredPathExists ==
    fn_pc = "stored"
    => /\ fn_in.expected \in fn_in.on_disk => fn_out = fn_in.expected
       /\ \A x \in {".webm", ".m4a", ".mp3", ".mp4"} :
            (fn_in.expected \notin fn_in.on_disk /\ fn_out = x)
            => x \in fn_in.on_disk
       /\ fn_out \in fn_in.on_disk

====
